---- MODULE Spec2Model ----
(***************************************************************************)
(* Model of src/proyect.py: the rule parser (SmartHomeSystem.parse_rule),  *)
(* the execution engine (execute_rules), the rule collection (add_rule,    *)
(* remove_rule), the translator (NLPProcessor.natural_language_to_rule)    *)
(* and the menu handlers of main() that drive them.                        *)
(*                                                                         *)
(* Texts are strings; Len, SubSeq and \o work on them character by         *)
(* character, so Python's `in`, re.search and str.lower are modelled on    *)
(* the characters of the text.                                             *)
(***************************************************************************)
EXTENDS Integers, Sequences, FiniteSets, TLC

VARIABLES devices, rules, executed, pre, calls, parsed, last

vars == <<devices, rules, executed, pre, calls, parsed, last>>

(***************************************************************************)
(* Python string primitives                                                *)
(***************************************************************************)

\* the element of a one-element set.  TheOne({e : x \in {v}}) is e with x
\* standing for the value of v: v is evaluated once, as the right-hand side
\* of a Python assignment is
TheOne(S) == CHOOSE y \in S : TRUE

\* s[i] as a one-character string
CharAt(s, i) == SubSeq(s, i, i)

\* s.startswith(p, i-1): p occurs in s at (1-based) position i
MatchAt(s, p, i) == i >= 1 /\ i + Len(p) - 1 <= Len(s) /\ SubSeq(s, i, i + Len(p) - 1) = p

\* the positions at which p occurs in s
Occurrences(s, p) == {i \in 1..(Len(s) - Len(p) + 1) : MatchAt(s, p, i)}

\* Python's `p in s`
Contains(s, p) == Occurrences(s, p) # {}

SetMin(S) == CHOOSE m \in S : \A n \in S : m <= n

UpperLetters == "ABCDEFGHIJKLMNOPQRSTUVWXYZ"

LowerLetters == "abcdefghijklmnopqrstuvwxyz"

Digits == "0123456789"

IsDigit(c) == \E k \in 1..10 : CharAt(Digits, k) = c

DigitValue(c) == (CHOOSE k \in 1..10 : CharAt(Digits, k) = c) - 1

\* \w of the re module, on the characters the model uses
IsWordChar(c) ==
    \/ IsDigit(c)
    \/ c = "_"
    \/ \E k \in 1..26 : CharAt(LowerLetters, k) = c \/ CharAt(UpperLetters, k) = c

LowerChar(c) ==
    IF \E k \in 1..26 : CharAt(UpperLetters, k) = c
    THEN CharAt(LowerLetters, CHOOSE k \in 1..26 : CharAt(UpperLetters, k) = c)
    ELSE c

RECURSIVE LowerFrom(_, _)
LowerFrom(s, i) == IF i > Len(s) THEN "" ELSE LowerChar(CharAt(s, i)) \o LowerFrom(s, i + 1)

\* str.lower()
lower(s) == LowerFrom(s, 1)

RECURSIVE DigitRunEnd(_, _)
\* last position of the maximal run of digits that starts at position i
DigitRunEnd(s, i) ==
    IF i + 1 <= Len(s) /\ IsDigit(CharAt(s, i + 1)) THEN DigitRunEnd(s, i + 1) ELSE i

RECURSIVE int(_)
\* int() of a non-empty string of digits
int(ds) ==
    IF Len(ds) = 0 THEN 0
    ELSE 10 * int(SubSeq(ds, 1, Len(ds) - 1)) + DigitValue(CharAt(ds, Len(ds)))

RECURSIVE JoinFrom(_, _, _)
JoinFrom(sep, parts, i) ==
    IF i > Len(parts) THEN ""
    ELSE IF i = Len(parts) THEN parts[i]
    ELSE parts[i] \o sep \o JoinFrom(sep, parts, i + 1)

\* sep.join(parts)
Join(sep, parts) == JoinFrom(sep, parts, 1)

\* the value that stands for "no match" (None) of a search whose group is
\* never empty when it matches
NoMatch == ""

\* re.search(lit + r'(\d+)', s).group(1), or NoMatch
SearchNumber(s, lit) ==
    LET hits == {i \in Occurrences(s, lit) :
                    i + Len(lit) <= Len(s) /\ IsDigit(CharAt(s, i + Len(lit)))}
    IN  IF hits = {} THEN NoMatch
        ELSE LET b == SetMin(hits) + Len(lit)
             IN  SubSeq(s, b, DigitRunEnd(s, b))

\* \d{n}:\d{2} matches at position b of s
ClockAt(s, b, n) ==
    /\ b + n + 2 <= Len(s)
    /\ \A k \in 0..(n - 1) : IsDigit(CharAt(s, b + k))
    /\ CharAt(s, b + n) = ":"
    /\ IsDigit(CharAt(s, b + n + 1))
    /\ IsDigit(CharAt(s, b + n + 2))

\* re.search(lit + r'(\d{lo,2}:\d{2})', s).group(1), or NoMatch  (lo is 1 or 2)
SearchClock(s, lit, lo) ==
    LET hits == {i \in Occurrences(s, lit) :
                    \E n \in lo..2 : ClockAt(s, i + Len(lit), n)}
    IN  IF hits = {} THEN NoMatch
        ELSE LET b == SetMin(hits) + Len(lit)
                 n == IF ClockAt(s, b, 2) THEN 2 ELSE 1
             IN  SubSeq(s, b, b + n + 2)

\* re.search(r'\b(w1|w2|...)\b', s) is not None
SearchWord(s, words) ==
    \E w \in words : \E i \in Occurrences(s, w) :
        /\ (i = 1 \/ ~IsWordChar(CharAt(s, i - 1)))
        /\ (i + Len(w) > Len(s) \/ ~IsWordChar(CharAt(s, i + Len(w))))

(***************************************************************************)
(* Inputs                                                                  *)
(***************************************************************************)

\* temperatures typed at "Enter temperature (15-35 C)"
TempInputs == {14, 17, 18, 23, 26, 36}

\* lines typed at "Enter time (HH:MM)"
TimeInputs == {"17:00", "18:00", "7:30"}

\* lines typed at "Enter new rule"
RuleInputs ==
    { "",
      "IF motion detected THEN turn on security",
      "IF temperature > 25 THEN turn on motion",
      "IF motion detected THEN turn on security AND turn off ac" }

\* the rule collection never grows beyond this many rules in the model
MaxRules == 4

\* numbers typed at "Enter rule number to remove"
RemoveInputs == (-1)..(MaxRules + 2)

\* lines typed at "Enter command"
Commands ==
    { "", "xyzzy", "Turn off lights", "If it is hot turn on ac",
      "When it is cold", "Disable motion detection", "Activate the alarm",
      "Enable alarm and start heater", "when movement stops",
      "In the evening turn on lights", "At dawn turn on heating",
      "Turn on cooling when it is dark", "Turn on ac in the afternoon",
      "When it is comfortable turn on heating",
      "Set temperature to 20", "Set temperature to 40",
      "Set time to 18:00", "Set time to 7:30",
      "Set time to 18:00 and set temperature to 20" }

(***************************************************************************)
(* NLPProcessor                                                            *)
(***************************************************************************)

\* any(word in text for word in words)
AnyIn(text, words) == \E k \in 1..Len(words) : Contains(text, words[k])

\* `item in list`
InList(list, item) == \E k \in 1..Len(list) : list[k] = item

\* the value natural_language_to_rule returns when nothing was recognised
CouldNotParse == "Could not parse command"

\* natural_language_to_rule: the temperature conditions
NLTemperature(text_lower) ==
    IF SearchWord(text_lower, {"hot", "warm"}) THEN << "temperature > 25" >>
    ELSE IF SearchWord(text_lower, {"cold", "cool", "chilly"}) THEN << "temperature < 18" >>
    ELSE IF Contains(text_lower, "comfortable") \/ Contains(text_lower, "normal temperature")
         THEN << "temperature >= 18 AND temperature <= 22" >>
    ELSE << >>

\* natural_language_to_rule: one `if any(word in text_lower ...)` block that
\* appends a condition unless the list already holds it
AppendCondition(conditions, text_lower, words, condition) ==
    IF AnyIn(text_lower, words) /\ ~InList(conditions, condition)
    THEN Append(conditions, condition)
    ELSE conditions

\* natural_language_to_rule: conditions after the time-of-day and motion blocks
NLConditions(text_lower) ==
    LET c0 == NLTemperature(text_lower)
        c1 == AppendCondition(c0, text_lower,
                              << "in the evening", "evening", "at night", "dark" >>,
                              "time >= 18:00 AND time < 22:00")
        c2 == AppendCondition(c1, text_lower,
                              << "morning", "in the morning", "dawn" >>,
                              "time >= 06:00 AND time < 10:00")
        c3 == AppendCondition(c2, text_lower,
                              << "afternoon", "in the afternoon" >>,
                              "time >= 12:00 AND time < 18:00")
    IN  AppendCondition(c3, text_lower, << "motion", "movement", "detect" >>,
                        "motion detected")

\* natural_language_to_rule: direct_commands
NLDirectCommands(text_lower) ==
    LET match_time == SearchClock(text_lower, "set time to ", 1)
        match_temp == SearchNumber(text_lower, "set temperature to ")
    IN  (IF match_time # NoMatch THEN << "set time to " \o match_time >> ELSE << >>)
        \o (IF match_temp # NoMatch THEN << "set temperature to " \o match_temp >> ELSE << >>)

\* natural_language_to_rule: action_map, in dict order
action_map ==
    << [device |-> "lights",   keywords |-> << "light", "lights" >>],
       [device |-> "ac",       keywords |-> << "ac", "air conditioning", "cooling" >>],
       [device |-> "heating",  keywords |-> << "heating", "heater" >>],
       [device |-> "security", keywords |-> << "security", "alarm", "security system" >>],
       [device |-> "motion",   keywords |-> << "motion", "motion detection", "motion sensor",
                                                "movement" >>] >>

\* natural_language_to_rule: the body of the loop over the keywords, for one
\* device and one keyword
KeywordActions(text_lower, device, keyword) ==
    (IF AnyIn(text_lower, << "turn on " \o keyword, "enable " \o keyword,
                             "activate " \o keyword, "start " \o keyword >>)
     THEN << "turn on " \o device >> ELSE << >>)
    \o
    (IF AnyIn(text_lower, << "turn off " \o keyword, "disable " \o keyword,
                             "deactivate " \o keyword, "stop " \o keyword >>)
     THEN << "turn off " \o device >> ELSE << >>)

RECURSIVE NLActions(_, _, _)
\* natural_language_to_rule: the nested loops over action_map, from keyword k
\* of device d on
NLActions(text_lower, d, k) ==
    IF d > Len(action_map) THEN << >>
    ELSE IF k > Len(action_map[d].keywords) THEN NLActions(text_lower, d + 1, 1)
    ELSE KeywordActions(text_lower, action_map[d].device, action_map[d].keywords[k])
         \o NLActions(text_lower, d, k + 1)

\* natural_language_to_rule: the first operand of the rule-or-command test
IsConditionalText(text_lower) ==
    \/ Contains(text_lower, "if")
    \/ Contains(text_lower, "when")
    \/ AnyIn(text_lower, << "morning", "evening", "afternoon", "night" >>)

\* natural_language_to_rule: the rule-or-command decision on what was
\* collected
NLDecision(text_lower, conditions, direct_commands, actions) ==
    IF IsConditionalText(text_lower) /\ Len(conditions) > 0 /\ Len(actions) > 0
    THEN "IF " \o Join(" AND ", conditions) \o " THEN " \o Join(" AND ", actions)
    ELSE IF Len(direct_commands) > 0 \/ Len(actions) > 0
    THEN Join(" AND ", direct_commands \o actions)
    ELSE CouldNotParse

\* NLPProcessor.natural_language_to_rule
natural_language_to_rule(text) ==
    TheOne({ NLDecision(text_lower, conditions, direct_commands, actions) :
                 <<text_lower, conditions, direct_commands, actions>> \in
                     { <<tl, NLConditions(tl), NLDirectCommands(tl), NLActions(tl, 1, 1)>> :
                           tl \in {lower(text)} } })

RECURSIVE ReplaceFrom(_, _, _, _)
ReplaceFrom(s, old, new, i) ==
    IF i > Len(s) THEN ""
    ELSE IF MatchAt(s, old, i) THEN new \o ReplaceFrom(s, old, new, i + Len(old))
    ELSE CharAt(s, i) \o ReplaceFrom(s, old, new, i + 1)

\* str.replace(old, new), old not empty
replace(s, old, new) == ReplaceFrom(s, old, new, 1)

(***************************************************************************)
(* SmartHomeSystem                                                         *)
(***************************************************************************)

\* SmartHomeSystem.__init__: self.devices
InitialDevices ==
    [lights |-> FALSE, ac |-> FALSE, heating |-> FALSE, security |-> FALSE,
     temperature |-> 22, motion |-> FALSE, time |-> "17:00"]

\* SmartHomeSystem.__init__: self.rules
DefaultRules ==
    << "IF temperature > 25 THEN turn on ac",
       "IF motion detected THEN turn on security",
       "IF time is 18:00 THEN turn on lights" >>

\* parse_rule: temp_patterns, in list order (the literal part of each pattern)
temp_patterns ==
    << [pattern |-> "temperature > ",  operator |-> ">"],
       [pattern |-> "temperature < ",  operator |-> "<"],
       [pattern |-> "temperature >= ", operator |-> ">="],
       [pattern |-> "temperature <= ", operator |-> "<="] >>

\* parse_rule: action_patterns, in dict (insertion) order
action_patterns ==
    << [key |-> "turn on lights",    device |-> "lights",   state |-> TRUE],
       [key |-> "turn off lights",   device |-> "lights",   state |-> FALSE],
       [key |-> "turn on ac",        device |-> "ac",       state |-> TRUE],
       [key |-> "turn off ac",       device |-> "ac",       state |-> FALSE],
       [key |-> "turn on heating",   device |-> "heating",  state |-> TRUE],
       [key |-> "turn off heating",  device |-> "heating",  state |-> FALSE],
       [key |-> "turn on security",  device |-> "security", state |-> TRUE],
       [key |-> "turn off security", device |-> "security", state |-> FALSE],
       [key |-> "turn on motion",    device |-> "motion",   state |-> TRUE],
       [key |-> "turn off motion",   device |-> "motion",   state |-> FALSE] >>

RECURSIVE TempConditions(_, _)
\* parse_rule: the loop over temp_patterns, from pattern k on
TempConditions(rule, k) ==
    IF k > Len(temp_patterns) THEN << >>
    ELSE LET match == SearchNumber(rule, temp_patterns[k].pattern)
         IN  (IF match # NoMatch
              THEN << [type |-> "temp", value |-> int(match),
                       operator |-> temp_patterns[k].operator] >>
              ELSE << >>) \o TempConditions(rule, k + 1)

\* a time condition also read from the translator's "time >= HH:MM"
TimeConditions_from_interval(rule) ==
    LET match == SearchClock(rule, "time >= ", 2)
    IN  IF match # NoMatch
        THEN << [type |-> "time", value |-> match, operator |-> "=="] >>
        ELSE << >>

\* parse_rule: the time condition
TimeConditions(rule) ==
    IF Contains(rule, "time is")
    THEN LET match == SearchClock(rule, "time is ", 2)
         IN  IF match # NoMatch
             THEN << [type |-> "time", value |-> match, operator |-> "=="] >>
             ELSE << >>
    ELSE << >>

\* parse_rule: the motion condition
MotionConditions(rule) ==
    IF Contains(rule, "motion detected")
    THEN << [type |-> "motion", value |-> TRUE] >>
    ELSE << >>

RECURSIVE RuleActions(_, _)
\* parse_rule: the loop over action_patterns, from entry k on
RuleActions(rule, k) ==
    IF k > Len(action_patterns) THEN << >>
    ELSE (IF Contains(rule, action_patterns[k].key)
          THEN << [device |-> action_patterns[k].device,
                   state |-> action_patterns[k].state] >>
          ELSE << >>) \o RuleActions(rule, k + 1)

\* SmartHomeSystem.parse_rule
parse_rule(rule) ==
    TheOne({ [conditions |-> TempConditions(text, 1) \o TimeConditions(text)
                                 \o MotionConditions(text),
              actions    |-> RuleActions(text, 1)] : text \in {rule} })

\* the texts the inputs of the model can put into the rule collection
KnownRules ==
    {DefaultRules[i] : i \in 1..Len(DefaultRules)} \cup RuleInputs
        \cup {natural_language_to_rule(command) : command \in Commands}

\* parse_rule on the known texts, computed once
ParseTable == [rule \in KnownRules |-> parse_rule(rule)]

\* execute_rules: `conditions, actions = self.parse_rule(rule)`
ParsedRule(rule) == IF rule \in KnownRules THEN ParseTable[rule] ELSE parse_rule(rule)

\* the comparisons of a temperature condition, all strict
ConditionHolds_strict(devs, condition) ==
    IF condition.type = "temp"
    THEN IF condition.operator \in {">", ">="}
         THEN devs.temperature > condition.value
         ELSE devs.temperature < condition.value
    ELSE IF condition.type = "time" THEN devs.time = condition.value
    ELSE devs.motion = condition.value

\* execute_rules: one condition against the device state
ConditionHolds(devs, condition) ==
    IF condition.type = "temp"
    THEN LET device_temp == devs.temperature
             operator == condition.operator
             value == condition.value
         IN  IF operator = ">" THEN device_temp > value
             ELSE IF operator = "<" THEN device_temp < value
             ELSE IF operator = ">=" THEN device_temp >= value
             ELSE IF operator = "<=" THEN device_temp <= value
             ELSE TRUE
    ELSE IF condition.type = "time" THEN devs.time = condition.value
    ELSE IF condition.type = "motion" THEN devs.motion = condition.value
    ELSE TRUE

\* execute_rules: should_execute after the loop over the conditions
should_execute(devs, conditions) ==
    \A c \in 1..Len(conditions) : ConditionHolds(devs, conditions[c])

\* the mark execute_rules puts before a reported rule (U+2713 and a space)
Mark == "+ "

\* one action of a rule, reported whether or not it changes the stored value
ApplyAction_always_reports(acc, rule, action) ==
    [devices |-> [acc.devices EXCEPT ![action.device] = action.state],
     executed_rules |-> Append(acc.executed_rules, Mark \o rule)]

\* execute_rules: one action of a rule; acc holds self.devices and
\* executed_rules
ApplyAction(acc, rule, action) ==
    LET old_state == acc.devices[action.device]
    IN  [devices |-> [acc.devices EXCEPT ![action.device] = action.state],
         executed_rules |-> IF old_state # action.state
                            THEN Append(acc.executed_rules, Mark \o rule)
                            ELSE acc.executed_rules]

RECURSIVE ApplyActions(_, _, _, _)
\* execute_rules: the loop over the actions of one rule, from action k on
ApplyActions(acc, rule, actions, k) ==
    IF k > Len(actions) THEN acc
    ELSE TheOne({ ApplyActions(next, rule, actions, k + 1) :
                      next \in {ApplyAction(acc, rule, actions[k])} })

\* execute_rules: the body of the loop over self.rules, for one rule
RunRule(acc, rule) ==
    LET p == ParsedRule(rule)
    IN  IF should_execute(acc.devices, p.conditions) /\ Len(p.actions) > 0
        THEN ApplyActions(acc, rule, p.actions, 1)
        ELSE acc

RECURSIVE RunRules(_, _, _)
\* execute_rules: the loop over self.rules, from rule i on
RunRules(acc, rs, i) ==
    IF i > Len(rs) THEN acc
    ELSE TheOne({ RunRules(next, rs, i + 1) : next \in {RunRule(acc, rs[i])} })

RECURSIVE RunRulesOnSnapshot(_, _, _, _)
RunRulesOnSnapshot(snapshot, acc, rs, i) ==
    IF i > Len(rs) THEN acc
    ELSE TheOne({ RunRulesOnSnapshot(snapshot, next, rs, i + 1) :
                      next \in { IF should_execute(snapshot, ParsedRule(rs[i]).conditions)
                                    /\ Len(ParsedRule(rs[i]).actions) > 0
                                 THEN ApplyActions(acc, rs[i], ParsedRule(rs[i]).actions, 1)
                                 ELSE acc } })

\* a pass that tests every rule against the device state on entry
execute_rules_on_snapshot(devs, rs) ==
    TheOne({ RunRulesOnSnapshot(devs, acc, rs, 1) :
                 acc \in {[devices |-> devs, executed_rules |-> << >>]} })

\* SmartHomeSystem.execute_rules: the device state after the pass and the
\* list it returns
execute_rules(devs, rs) ==
    TheOne({ RunRules(acc, rs, 1) : acc \in {[devices |-> devs, executed_rules |-> << >>]} })

\* `rule in self.rules`
InRules(rs, rule) == \E i \in 1..Len(rs) : rs[i] = rule

\* add_rule without the duplicate test
add_rule_no_duplicate_test(rs, rule) ==
    IF rule # "" THEN Append(rs, rule) ELSE rs

\* SmartHomeSystem.add_rule: self.rules after the call
add_rule(rs, rule) ==
    IF rule # "" /\ ~InRules(rs, rule) THEN Append(rs, rule) ELSE rs

\* list.pop(index) with Python's indexing (a negative index counts from the end)
Pop(rs, index) ==
    LET at == IF index < 0 THEN Len(rs) + index + 1 ELSE index + 1
    IN  IF at >= 1 /\ at <= Len(rs)
        THEN SubSeq(rs, 1, at - 1) \o SubSeq(rs, at + 1, Len(rs))
        ELSE rs

\* remove_rule without the lower bound of the index test
remove_rule_no_lower_bound(rs, index) ==
    IF index < Len(rs) THEN Pop(rs, index) ELSE rs

\* SmartHomeSystem.remove_rule: self.rules after the call
remove_rule(rs, index) ==
    IF 0 <= index /\ index < Len(rs) THEN Pop(rs, index) ELSE rs

(***************************************************************************)
(* State                                                                   *)
(*   devices   smart_home.devices                                          *)
(*   rules     smart_home.rules                                            *)
(*   calls     how many times the latest handler called execute_rules      *)
(*   pre       smart_home.devices on entry to its last execute_rules call  *)
(*   executed  the list that call returned (empty when calls = 0)          *)
(*   parsed    the translator's result in the latest handler ("" when it   *)
(*             did not translate)                                          *)
(*   last      the latest handler and the input it read                    *)
(***************************************************************************)

Handler(op, text, number) == [op |-> op, text |-> text, number |-> number]

\* the handler changes the device state to d and then calls execute_rules
SetAndExecute(d) ==
    \E r \in {execute_rules(d, rules)} :
        /\ devices' = r.devices
        /\ executed' = r.executed_rules
        /\ pre' = d
        /\ calls' = 1

\* the handler leaves the device state at d and does not call execute_rules
SetOnly(d) ==
    /\ devices' = d
    /\ executed' = << >>
    /\ pre' = d
    /\ calls' = 0

Init ==
    /\ devices = InitialDevices
    /\ rules = DefaultRules
    /\ executed = << >>
    /\ pre = InitialDevices
    /\ calls = 0
    /\ parsed = ""
    /\ last = Handler("init", "", 0)

\* manual_control, choice 1: temp is int(input())
ManualTemperature(temp) ==
    /\ IF 15 <= temp /\ temp <= 35
       THEN SetAndExecute([devices EXCEPT !.temperature = temp])
       ELSE SetOnly(devices)
    /\ last' = Handler("manual_temperature", "", temp)
    /\ parsed' = ""
    /\ UNCHANGED rules

\* re.match(r'^\d{2}:\d{2}$', time_input)
IsClock(time_input) == Len(time_input) = 5 /\ ClockAt(time_input, 1, 2)

\* manual_control, choice 2
ManualTime(time_input) ==
    /\ IF IsClock(time_input)
       THEN SetAndExecute([devices EXCEPT !.time = time_input])
       ELSE SetOnly(devices)
    /\ last' = Handler("manual_time", time_input, 0)
    /\ parsed' = ""
    /\ UNCHANGED rules

\* manual_control, choice 3
ToggleMotion ==
    /\ SetAndExecute([devices EXCEPT !.motion = ~devices.motion])
    /\ last' = Handler("toggle_motion", "", 0)
    /\ parsed' = ""
    /\ UNCHANGED rules

\* manual_control, choice 4
ToggleLights ==
    /\ SetOnly([devices EXCEPT !.lights = ~devices.lights])
    /\ last' = Handler("toggle_lights", "", 0)
    /\ parsed' = ""
    /\ UNCHANGED rules

\* manual_control, choice 5
ToggleAC ==
    /\ SetOnly([devices EXCEPT !.ac = ~devices.ac])
    /\ last' = Handler("toggle_ac", "", 0)
    /\ parsed' = ""
    /\ UNCHANGED rules

\* main, choice 4: rule is the stripped input line
AddRule(rule) ==
    /\ Len(add_rule(rules, rule)) <= MaxRules
    /\ rules' = add_rule(rules, rule)
    /\ SetOnly(devices)
    /\ last' = Handler("add_rule", rule, 0)
    /\ parsed' = ""

\* main, choice 5: number is int(input()), the index is number - 1
RemoveRule(number) ==
    /\ rules' = remove_rule(rules, number - 1)
    /\ SetOnly(devices)
    /\ last' = Handler("remove_rule", "", number - 1)
    /\ parsed' = ""

\* natural_language_command: what the handler derives from the translation
\* `rule` before it touches the state: the branch it takes, and the
\* temperature, the time or the actions of a direct command
InterpretRule(rule, rule_lower) ==
    LET none == [rule |-> rule, branch |-> "none", temp |-> 0, time |-> "", actions |-> << >>]
    IN  IF Contains(rule_lower, "if") /\ Contains(rule_lower, "then")
        THEN [none EXCEPT !.branch = "rule"]
        ELSE IF rule # CouldNotParse
        THEN IF Contains(rule, "set temperature to")
             THEN LET match == SearchNumber(rule, "set temperature to ")
                  IN  IF match # NoMatch
                      THEN [none EXCEPT !.branch = "temperature", !.temp = int(match)]
                      ELSE none
             ELSE IF Contains(rule, "set time to")
             THEN LET match == SearchClock(rule, "set time to ", 1)
                  IN  IF match # NoMatch
                      THEN [none EXCEPT !.branch = "time", !.time = match]
                      ELSE none
             ELSE LET normalized_rule ==
                          replace(replace(replace(rule,
                              "motion detection", "motion"),
                              "motion sensor", "motion"),
                              "security system", "security")
                  IN  [none EXCEPT !.branch = "actions",
                          !.actions = parse_rule("IF dummy THEN " \o normalized_rule).actions]
        ELSE none

\* natural_language_command: from the command text to what the handler does
Interpret(command) ==
    TheOne({ InterpretRule(translated[1], translated[2]) :
                 translated \in { <<rule, lower(rule)>> :
                                      rule \in {natural_language_to_rule(command)} } })

\* Interpret on the commands of the model, computed once
InterpretTable == [command \in Commands |-> Interpret(command)]

Interpreted(command) ==
    IF command \in Commands THEN InterpretTable[command] ELSE Interpret(command)

RECURSIVE DirectActions(_, _, _, _)
\* natural_language_command: the loop over the actions of a direct command,
\* from action k on; acc holds the device state, and the entry state and the
\* result of the latest execute_rules call
DirectActions(acc, rs, actions, k) ==
    IF k > Len(actions) THEN acc
    ELSE TheOne({ DirectActions(next, rs, actions, k + 1) :
                      next \in { [devices |-> r.devices, pre |-> d,
                                  executed_rules |-> r.executed_rules] :
                                 <<d, r>> \in { <<dv, execute_rules(dv, rs)>> :
                                     dv \in {[acc.devices EXCEPT
                                                 ![actions[k].device] = actions[k].state]} } } })

\* natural_language_command (main, choice 6): command is the stripped input
\* line, add_it the answer to "Add this rule to automation?"
NaturalLanguageCommand(command, add_it) ==
    \E plan \in {Interpreted(command)} :
        /\ last' = Handler("natural_language_command", command, 0)
        /\ IF command = ""
           THEN /\ parsed' = ""
                /\ SetOnly(devices)
                /\ UNCHANGED rules
           ELSE
           /\ parsed' = plan.rule
           /\ IF plan.branch = "rule"
              THEN /\ rules' = (IF add_it = "y" THEN add_rule(rules, plan.rule) ELSE rules)
                   /\ Len(rules') <= MaxRules
                   /\ SetOnly(devices)
              ELSE IF plan.branch = "temperature"
              THEN /\ SetAndExecute([devices EXCEPT !.temperature = plan.temp])
                   /\ UNCHANGED rules
              ELSE IF plan.branch = "time"
              THEN /\ SetAndExecute([devices EXCEPT !.time = plan.time])
                   /\ UNCHANGED rules
              ELSE IF plan.branch = "actions"
              THEN \E r \in {DirectActions([devices |-> devices, pre |-> devices,
                                            executed_rules |-> << >>],
                                           rules, plan.actions, 1)} :
                       /\ devices' = r.devices
                       /\ pre' = r.pre
                       /\ executed' = r.executed_rules
                       /\ calls' = Len(plan.actions)
                       /\ UNCHANGED rules
              ELSE /\ SetOnly(devices)
                   /\ UNCHANGED rules

\* automation_demo (main, choice 7): the three scenarios, each followed by
\* execute_rules
AutomationDemo ==
    \E r1 \in {execute_rules([devices EXCEPT !.temperature = 26], rules)} :
    \E r2 \in {execute_rules([r1.devices EXCEPT !.motion = TRUE], rules)} :
    \E d3 \in {[r2.devices EXCEPT !.time = "18:00"]} :
    \E r3 \in {execute_rules(d3, rules)} :
        /\ devices' = r3.devices
        /\ pre' = d3
        /\ executed' = r3.executed_rules
        /\ calls' = 3
        /\ last' = Handler("automation_demo", "", 0)
        /\ parsed' = ""
        /\ UNCHANGED rules

\* the main loop: one handler per iteration
Menu(temps, times, texts, numbers, commands, answers) ==
    \/ \E temp \in temps : ManualTemperature(temp)
    \/ \E time_input \in times : ManualTime(time_input)
    \/ ToggleMotion
    \/ ToggleLights
    \/ ToggleAC
    \/ \E rule \in texts : AddRule(rule)
    \/ \E number \in numbers : RemoveRule(number)
    \/ \E command \in commands : \E add_it \in answers :
           NaturalLanguageCommand(command, add_it)
    \/ AutomationDemo

(***************************************************************************)
(* Specifications: the main loop over the inputs a group of properties     *)
(* needs                                                                   *)
(***************************************************************************)

\* the execution engine: rules that feed one another through motion
Next ==
    Menu({26}, {"18:00"},
         {"IF temperature > 25 THEN turn on motion",
          "IF motion detected THEN turn on security",
          "IF motion detected THEN turn on security AND turn off ac"},
         {1, 2}, {"Turn off lights"}, {"y", "n"})

Spec == Init /\ [][Next]_vars

\* the rule collection: every rule text and every remove number
NextRules ==
    Menu({26}, {"18:00"},
         {"", "IF motion detected THEN turn on security",
          "IF temperature > 25 THEN turn on motion"},
         RemoveInputs, {"If it is hot turn on ac"}, {"y", "n"})

SpecRules == Init /\ [][NextRules]_vars

\* temperatures: the manual entries, the direct commands and a rule over an
\* interval of temperatures
NextTemperature ==
    Menu(TempInputs, {"18:00"}, {""}, {1},
         {"When it is comfortable turn on heating",
          "Set temperature to 20", "Set temperature to 40"}, {"y", "n"})

SpecTemperature == Init /\ [][NextTemperature]_vars

\* times: the manual entries, the direct commands and a rule translated from
\* a time-of-day phrase
NextTime ==
    Menu({26}, TimeInputs, {""}, {1},
         {"In the evening turn on lights", "Set time to 7:30"}, {"y", "n"})

SpecTime == Init /\ [][NextTime]_vars

\* the translator: every command, none of the translated rules stored
NextTranslate == Menu({26}, {"18:00"}, {""}, {1}, Commands, {"n"})

SpecTranslate == Init /\ [][NextTranslate]_vars

(***************************************************************************)
(* Properties of the rule collection                                       *)
(***************************************************************************)

\* C6: a rejected add_rule (empty text, or a text already in the collection)
\* and a rejected remove_rule (index outside [0, len), negative indexes
\* included) leave the rule collection as it was.
RejectedOperationLeavesRules ==
    [][ /\ (last'.op = "add_rule" /\ (last'.text = "" \/ InRules(rules, last'.text)))
            => rules' = rules
        /\ (last'.op = "natural_language_command" /\ InRules(rules, parsed'))
            => rules' = rules
        /\ (last'.op = "remove_rule" /\ (last'.number < 0 \/ last'.number >= Len(rules)))
            => rules' = rules ]_vars

\* a remove_rule with a negative index has just been rejected on a collection
\* that holds rules
NegativeIndexRejected ==
    /\ last.op = "remove_rule"
    /\ last.number < 0
    /\ Len(rules) > 0

NoEmptyRule == \A i \in 1..Len(rules) : rules[i] # ""

NoDuplicateRule == \A i, j \in 1..Len(rules) : i # j => rules[i] # rules[j]

\* one step keeps the rules that remain in their order and puts a new rule
\* after all of them
KeepsInsertionOrder ==
    /\ \A i, j \in 1..Len(rules) : \A i2, j2 \in 1..Len(rules') :
           (i < j /\ rules'[i2] = rules[i] /\ rules'[j2] = rules[j]) => i2 < j2
    /\ \A i2, j2 \in 1..Len(rules') :
           (InRules(rules, rules'[i2]) /\ ~InRules(rules, rules'[j2])) => i2 < j2

\* C7: from the three default rules on, the rule collection never holds an
\* empty string or the same text twice, and the rules that remain keep the
\* relative order of their insertion.
RuleCollectionKeepsItsShape ==
    [](NoEmptyRule /\ NoDuplicateRule) /\ [][KeepsInsertionOrder]_vars

\* a default rule was removed and inserted again behind a rule added later
DefaultRuleReinserted ==
    \E i, j \in 1..Len(rules) :
        /\ i < j
        /\ rules[i] = "IF temperature > 25 THEN turn on motion"
        /\ rules[j] = "IF motion detected THEN turn on security"

(***************************************************************************)
(* Properties of the execution engine                                      *)
(***************************************************************************)

\* the devices an action can name
BoolDevices == {action_patterns[k].device : k \in 1..Len(action_patterns)}

\* the rule has an action that sets the device to the state
HasAction(rule, device, state) ==
    \E k \in 1..Len(ParsedRule(rule).actions) :
        ParsedRule(rule).actions[k] = [device |-> device, state |-> state]

\* the rule has a motion condition
NeedsMotion(rule) ==
    \E c \in 1..Len(ParsedRule(rule).conditions) :
        ParsedRule(rule).conditions[c].type = "motion"

\* the temperature and time conditions of the rule hold in the device state d
OtherConditionsHold(d, rule) ==
    \A c \in 1..Len(ParsedRule(rule).conditions) :
        ParsedRule(rule).conditions[c].type # "motion"
            => ConditionHolds(d, ParsedRule(rule).conditions[c])

\* no rule of the collection turns the device off
NoOff(device) == \A k \in 1..Len(rules) : ~HasAction(rules[k], device, FALSE)

\* no rule of the collection acts on motion
NoMotionAction ==
    \A k \in 1..Len(rules) :
        ~HasAction(rules[k], "motion", TRUE) /\ ~HasAction(rules[k], "motion", FALSE)

\* no device is turned on by one action of the collection and off by another
NoOpposedActions ==
    \A i, j \in 1..Len(rules) : \A d \in BoolDevices :
        ~(HasAction(rules[i], d, TRUE) /\ HasAction(rules[j], d, FALSE))

\* this step's handler calls execute_rules once, on the device state and the
\* rule collection the previous execute_rules call left
SecondPass == calls > 0 /\ calls' = 1 /\ pre' = devices /\ rules' = rules

\* C1 as stated: the second of two execute_rules calls in succession, with
\* nothing changed in between, returns an empty list.
SecondPassReportsNothing == [][SecondPass => executed' = << >>]_vars

\* C1, amended: the second of two execute_rules calls in succession returns
\* an empty list when no rule of the collection acts on motion and no device
\* is turned on by one action of the collection and off by another.
SecondPassOfSettledRulesReportsNothing ==
    [][(SecondPass /\ NoMotionAction /\ NoOpposedActions) => executed' = << >>]_vars

\* a second pass has just run over rules that had turned the ac on, and
\* reported nothing
SecondPassRan ==
    /\ calls = 1
    /\ last.op = "manual_temperature"
    /\ pre = devices
    /\ executed = << >>
    /\ devices.ac
    /\ devices.temperature > 25
    /\ HasAction(rules[1], "ac", TRUE)
    /\ NoMotionAction
    /\ NoOpposedActions

\* the reported texts without the mark
Unmarked(reported) ==
    [k \in 1..Len(reported) |-> SubSeq(reported[k], Len(Mark) + 1, Len(reported[k]))]

\* the device state of the latest pass when it reached rule j
DevicesBefore(j) == execute_rules(pre, SubSeq(rules, 1, j - 1)).devices

RECURSIVE ChangingRulesFrom(_)
\* the rules from position j on that changed a stored value in the latest pass
ChangingRulesFrom(j) ==
    IF j > Len(rules) THEN << >>
    ELSE (IF DevicesBefore(j) # DevicesBefore(j + 1) THEN << rules[j] >> ELSE << >>)
         \o ChangingRulesFrom(j + 1)

\* C2: the list one execute_rules pass returns is the sub-sequence of the rule
\* collection made of the rules that changed a stored device value in that
\* pass, each of them once.
ReportsEachChangingRuleOnce ==
    calls > 0 => Unmarked(executed) = ChangingRulesFrom(1)

\* C8, a later rule sees what an earlier rule did: motion was off on entry, a
\* rule without a motion condition turns motion on, and a rule behind it that
\* waits for motion is applied in the same pass.
LaterRuleSeesEarlierChange ==
    \A i, j \in 1..Len(rules) : \A d \in BoolDevices \ {"motion"} :
        ( /\ i < j
          /\ ~pre.motion
          /\ HasAction(rules[i], "motion", TRUE)
          /\ ~NeedsMotion(rules[i])
          /\ OtherConditionsHold(pre, rules[i])
          /\ NeedsMotion(rules[j])
          /\ OtherConditionsHold(pre, rules[j])
          /\ HasAction(rules[j], d, TRUE)
          /\ NoOff(d)
          /\ NoOff("motion") )
        => devices[d]

\* C8, an earlier rule is not looked at again: motion was off on entry, and
\* every rule that turns the device on waits for motion and stands before
\* every rule that turns motion on; the device stays off in this pass.
EarlierRuleIsNotRechecked ==
    \A d \in BoolDevices \ {"motion"} :
        ( /\ ~pre.motion
          /\ ~pre[d]
          /\ \A k \in 1..Len(rules) :
                 HasAction(rules[k], d, TRUE)
                     => /\ NeedsMotion(rules[k])
                        /\ \A m \in 1..Len(rules) :
                               HasAction(rules[m], "motion", TRUE) => k < m )
        => ~devices[d]

\* C8, the earlier rule is applied by a following pass, which starts with
\* motion on.
FollowingPassApplies ==
    \A j \in 1..Len(rules) : \A d \in BoolDevices \ {"motion"} :
        ( /\ pre.motion
          /\ NeedsMotion(rules[j])
          /\ OtherConditionsHold(pre, rules[j])
          /\ HasAction(rules[j], d, TRUE)
          /\ NoOff(d)
          /\ NoOff("motion") )
        => devices[d]

\* C8: execute_rules makes one linear pass on the live device state: a later
\* rule sees the changes of earlier rules of the same pass, and an earlier rule
\* whose condition a later rule makes true is applied only by a following pass.
SinglePassOnLiveState ==
    calls > 0 =>
        /\ LaterRuleSeesEarlierChange
        /\ EarlierRuleIsNotRechecked
        /\ FollowingPassApplies

\* a pass has turned motion on behind a rule that waits for motion, and that
\* rule was not applied
EarlierRuleLeftBehind ==
    /\ calls > 0
    /\ ~pre.motion
    /\ devices.motion
    /\ ~devices.security
    /\ \E k, m \in 1..Len(rules) :
           /\ k < m
           /\ HasAction(rules[k], "security", TRUE)
           /\ NeedsMotion(rules[k])
           /\ HasAction(rules[m], "motion", TRUE)
           /\ OtherConditionsHold(pre, rules[m])

(***************************************************************************)
(* Properties of the temperature handling                                  *)
(***************************************************************************)

\* the rule the translator emits for a "comfortable" phrase
ComfortRule == natural_language_to_rule("When it is comfortable turn on heating")

\* the comfort rule is the only rule of the collection that acts on heating
OnlyComfortRuleHeats ==
    /\ \E j \in 1..Len(rules) : rules[j] = ComfortRule
    /\ \A k \in 1..Len(rules) :
           rules[k] # ComfortRule
               => ~HasAction(rules[k], "heating", TRUE) /\ ~HasAction(rules[k], "heating", FALSE)

\* C5: the comfort rule parses to the two conditions >= 18 and <= 22, and a
\* pass that starts with the heating off applies it exactly when the stored
\* temperature is in 18..22, both ends included.
ComfortRuleFiresIn18To22 ==
    /\ ParsedRule(ComfortRule).conditions =
           << [type |-> "temp", value |-> 18, operator |-> ">="],
              [type |-> "temp", value |-> 22, operator |-> "<="] >>
    /\ (calls > 0 /\ ~pre.heating /\ OnlyComfortRuleHeats)
           => (devices.heating <=> pre.temperature \in 18..22)

\* a pass at a stored temperature of 18 has turned the heating on
HeatingTurnedOnAt18 ==
    /\ calls > 0
    /\ ~pre.heating
    /\ OnlyComfortRuleHeats
    /\ pre.temperature = 18
    /\ devices.heating
    /\ (Mark \o ComfortRule) \in {executed[k] : k \in 1..Len(executed)}

\* C10: the stored temperature is always in 15..35.
TemperatureStaysInRange == devices.temperature \in 15..35

(***************************************************************************)
(* Properties of the translator                                            *)
(***************************************************************************)

\* the rule texts of the model that the translator emitted with a time-of-day
\* condition
TimeOfDayRules == {rule \in KnownRules : Contains(rule, "time >= ")}

\* the rule has a time condition
NeedsTime(rule) ==
    \E c \in 1..Len(ParsedRule(rule).conditions) :
        ParsedRule(rule).conditions[c].type = "time"

\* C9: a rule the translator emits from a time-of-day phrase parses to no
\* time condition; one with no other condition has an empty condition set,
\* and every pass over a collection that holds it applies its actions,
\* whatever the stored time.
TimeOfDayRuleFiresAtAnyTime ==
    /\ TimeOfDayRules # {}
    /\ \A rule \in TimeOfDayRules : ~NeedsTime(rule)
    /\ calls > 0 =>
           \A j \in 1..Len(rules) : \A d \in BoolDevices : \A b \in BOOLEAN :
               ( /\ rules[j] \in TimeOfDayRules
                 /\ ParsedRule(rules[j]).conditions = << >>
                 /\ HasAction(rules[j], d, b)
                 /\ \A k \in 1..Len(rules) : ~HasAction(rules[k], d, ~b) )
               => devices[d] = b

\* a pass at 7:30 has turned the lights on for an evening rule
EveningRuleFiredInTheMorning ==
    /\ calls > 0
    /\ devices.time = "7:30"
    /\ ~pre.lights
    /\ devices.lights
    /\ \E j \in 1..Len(rules) :
           /\ rules[j] \in TimeOfDayRules
           /\ HasAction(rules[j], "lights", TRUE)
           /\ (Mark \o rules[j]) \in {executed[k] : k \in 1..Len(executed)}
    /\ \A k \in 1..Len(rules) :
           HasAction(rules[k], "lights", TRUE) /\ rules[k] \notin TimeOfDayRules
               => ~should_execute(pre, ParsedRule(rules[k]).conditions)

\* the words and phrases of the time-of-day vocabulary
TimeOfDayWords ==
    << "in the evening", "evening", "at night", "dark", "morning",
       "in the morning", "dawn", "afternoon", "in the afternoon" >>

\* the translation as C3 states it
ClaimedTranslation(text) ==
    TheOne({ IF /\ \/ Contains(t[1], "if")
                   \/ Contains(t[1], "when")
                   \/ AnyIn(t[1], TimeOfDayWords)
                /\ Len(t[2]) > 0
                /\ Len(t[4]) > 0
             THEN "IF " \o Join(" AND ", t[2]) \o " THEN " \o Join(" AND ", t[4])
             ELSE IF Len(t[3]) > 0 \/ Len(t[4]) > 0
             THEN Join(" AND ", t[3] \o t[4])
             ELSE CouldNotParse :
                 t \in { <<tl, NLConditions(tl), NLDirectCommands(tl), NLActions(tl, 1, 1)>> :
                             tl \in {lower(text)} } })

\* ClaimedTranslation on the commands of the model, computed once
ClaimedTable == [command \in Commands |-> ClaimedTranslation(command)]

\* C3: the translator emits IF <conditions> THEN <actions> exactly when the
\* text contains "if", "when" or a time-of-day word and both lists are
\* non-empty; otherwise the direct commands and actions joined with AND, or
\* the could-not-parse message when both are empty.
TranslatorDecidesAsStated ==
    (last.op = "natural_language_command" /\ last.text # "")
        => parsed = ClaimedTable[last.text]

\* C4: "Turn off lights" is translated to the single action "turn off lights".
TurnOffLightsIsOneAction ==
    (last.op = "natural_language_command" /\ last.text = "Turn off lights")
        => parsed = "turn off lights"

====
